---- MODULE Spec2Model ----
(***************************************************************************)
(* A model of sae/sae.py (SparseAutoencoder) and sae/lora.py               *)
(* (replace_lora_linear).                                                  *)
(*                                                                         *)
(* Tensors are sequences (vectors) and sequences of rows (matrices) of     *)
(* exact rationals <<numerator, denominator>>; the values the random       *)
(* initialisers draw are picked by a seed from families whose row norms    *)
(* are rational, so that every norm the code takes is computed exactly.    *)
(***************************************************************************)
EXTENDS Integers, Sequences, FiniteSets, TLC

VARIABLES
    pc,              \* position of the instance in SparseAutoencoder.__init__
    cfg,             \* self.cfg, the SaeConfig bound to the instance
    W_enc,           \* parameter [d_in x d_sae]
    b_enc,           \* parameter [d_sae]
    W_dec,           \* parameter [d_sae x d_in]
    b_dec,           \* parameter [d_in]
    scaling_factor,  \* parameter [d_sae]
    W_dec_grad,      \* self.W_dec.grad: None or a [d_sae x d_in] matrix
    training,        \* nn.Module.training
    call,            \* the most recent call on the instance and its outcome
    out,             \* the ForwardOutput of the most recent forward
    disk,            \* the checkpoint directory save_model writes
    loaded,          \* the instance load_from_pretrained returned
    tree,            \* the host module graph handed to replace_lora_linear
    heapTop          \* number of module objects allocated so far

saeVars == <<pc, cfg, W_enc, b_enc, W_dec, b_dec, scaling_factor, W_dec_grad,
             training, call, out>>
vars == <<pc, cfg, W_enc, b_enc, W_dec, b_dec, scaling_factor, W_dec_grad,
          training, call, out, disk, loaded, tree, heapTop>>

None == "None"

----------------------------------------------------------------------------
(* Bounds of the model.                                                    *)

\* largest input dimension d_in a configuration carries
MaxDIn == 2
\* largest feature dimension d_sae a configuration carries
MaxDSae == 2
\* number of distinct outcomes of each random initialiser
NumSeeds == 2
\* number of times one accumulated gradient is projected
MaxProjections == 2
\* number of save_model calls on the checkpoint directory
MaxSaves == 2
\* number of modules of a host graph, the base layers of its adapter layers
\* not counted
MaxNodes == 4

----------------------------------------------------------------------------
(* Exact rational arithmetic.  <<0, 0>> is NaN (the result of 0/0 and of   *)
(* any operation on NaN).                                                  *)

Abs(n) == IF n < 0 THEN -n ELSE n

RECURSIVE GCD(_, _)
GCD(a, b) == IF b = 0 THEN a ELSE GCD(b, a % b)

NaN == <<0, 0>>

Rat(n, d) ==
    IF d = 0 THEN NaN
    ELSE LET g == GCD(Abs(n), Abs(d))
             s == IF d < 0 THEN -1 ELSE 1
         IN  <<(s * n) \div g, (s * d) \div g>>

Zero == <<0, 1>>
One == <<1, 1>>

IsNaN(a) == a[2] = 0
\* sums over the least common denominator and products of cross-reduced
\* factors, which keeps the intermediate integers small
RAdd(a, b) == IF IsNaN(a) \/ IsNaN(b) THEN NaN
              ELSE LET g == GCD(a[2], b[2])
                   IN  Rat(a[1] * (b[2] \div g) + b[1] * (a[2] \div g),
                           (a[2] \div g) * b[2])
RNeg(a) == <<-a[1], a[2]>>
RSub(a, b) == RAdd(a, RNeg(b))
RMul(a, b) == IF IsNaN(a) \/ IsNaN(b) THEN NaN
              ELSE LET g == GCD(Abs(a[1]), b[2])
                       h == GCD(Abs(b[1]), a[2])
                   IN  Rat((a[1] \div g) * (b[1] \div h),
                           (a[2] \div h) * (b[2] \div g))
RDiv(a, b) == IF IsNaN(a) \/ IsNaN(b) \/ b[1] = 0 THEN NaN
              ELSE RMul(a, IF b[1] < 0 THEN <<-b[2], -b[1]>> ELSE <<b[2], b[1]>>)
RAbs(a) == <<Abs(a[1]), a[2]>>
RPos(a) == a[1] > 0

\* the square root of a perfect square
ISqrt(n) == CHOOSE r \in 0..n : r * r = n
RSqrt(a) == IF IsNaN(a) THEN NaN ELSE <<ISqrt(a[1]), ISqrt(a[2])>>

----------------------------------------------------------------------------
(* Vectors and matrices.                                                   *)

RECURSIVE RSum(_)
RSum(v) == IF v = <<>> THEN Zero ELSE RAdd(v[1], RSum(Tail(v)))

Dot(u, v) == RSum([k \in 1..Len(u) |-> RMul(u[k], v[k])])
NormSq(v) == Dot(v, v)
\* torch.norm(v): the L2 norm
Norm(v) == RSqrt(NormSq(v))
Scale(v, c) == [k \in 1..Len(v) |-> RMul(v[k], c)]
VDiv(v, c) == [k \in 1..Len(v) |-> RDiv(v[k], c)]
VSub(u, v) == [k \in 1..Len(u) |-> RSub(u[k], v[k])]
VAdd(u, v) == [k \in 1..Len(u) |-> RAdd(u[k], v[k])]

Const(n, c) == [k \in 1..n |-> c]
\* M.T of an [m x n] matrix M
Transpose(M, m, n) == [j \in 1..n |-> [i \in 1..m |-> M[i][j]]]

----------------------------------------------------------------------------
(* Python values and optional values.                                      *)

PyInt(n) == [type |-> "int", val |-> n]
\* a float; val is its integer part
PyFloat(n) == [type |-> "float", val |-> n]
PyNone == [type |-> "NoneType", val |-> 0]

\* an optional value: <<>> is None, <<x>> is x
NoneOpt == <<>>
Some(x) == <<x>>
IsNone(o) == o = <<>>
Get(o) == o[1]

----------------------------------------------------------------------------
(* What the random initialisers return.  Each is a family indexed by a    *)
(* seed; the rows of every member are non-zero and of rational norm (a     *)
(* continuous draw has a zero row with probability 0).                     *)

Seeds == 1..NumSeeds

\* torch.nn.init.kaiming_uniform_(torch.empty(m, n)): entries in
\* (-sqrt(6/n), sqrt(6/n)); a no-op on a tensor without elements
KaimingUniform(m, n, s) ==
    [i \in 1..m |-> [j \in 1..n |->
        LET p == ((i + s) % n) + 1
            q == ((i + s + 1) % n) + 1
        IN  IF j = p THEN Rat(3, 10)
            ELSE IF j = q /\ (i + s) % 2 = 0 THEN Rat(-4, 10)
            ELSE Zero]]

\* torch.rand(m, n): entries in [0, 1)
TorchRand(m, n, s) ==
    [i \in 1..m |-> [j \in 1..n |->
        LET p == ((i + s) % n) + 1
            q == ((i + s + 1) % n) + 1
        IN  IF j = p THEN Rat(4, 10)
            ELSE IF j = q /\ (i + s) % 2 = 1 THEN Rat(3, 10)
            ELSE Zero]]

\* a unit vector of length k without a zero entry
UnitVec(k) ==
    IF k = 1 THEN <<One>>
    ELSE IF k = 2 THEN <<Rat(3, 5), Rat(4, 5)>>
    ELSE [t \in 1..k |-> IF t = 1 THEN Rat(k - 2, k) ELSE Rat(2, k)]

Sign(i, s) == IF (i + s) % 2 = 0 THEN One ELSE RNeg(One)

\* an [m x n] matrix, m >= n, whose columns are orthonormal
OrthonormalColumns(m, n, s) ==
    [i \in 1..m |-> [j \in 1..n |->
        IF j < n
        THEN (IF i = j THEN Sign(i, s) ELSE Zero)
        ELSE (IF i >= n THEN RMul(Sign(i, s), UnitVec(m - n + 1)[i - n + 1])
              ELSE Zero)]]

\* torch.nn.init.orthogonal_ on an [r x c] tensor: orthonormal rows when
\* r < c, orthonormal columns otherwise
Orthogonal(r, c, s) ==
    IF r < c THEN Transpose(OrthonormalColumns(c, r, s), c, r)
    ELSE OrthonormalColumns(r, c, s)

----------------------------------------------------------------------------
(* SaeConfig.                                                              *)

\* torch.dtype objects
Float32 == [torch_dtype |-> "float32"]
Float64 == [torch_dtype |-> "float64"]

MakeCfg(din, dsae, orth, heur, normalize, transpose, ghost, byDecNorm, applyB, dtype) ==
    [d_in |-> din,
     d_sae |-> dsae,
     l1_coefficient |-> Rat(1, 2),
     lp_norm |-> 1,
     dtype |-> dtype,
     use_ghost_grads |-> ghost,
     normalize_sae_decoder |-> normalize,
     noise_scale |-> Zero,
     apply_b_dec_to_input |-> applyB,
     decoder_orthogonal_init |-> orth,
     decoder_heuristic_init |-> heur,
     init_encoder_as_decoder_transpose |-> transpose,
     scale_sparsity_penalty_by_decoder_norm |-> byDecNorm,
     mse_loss_normalization |-> None,
     model_name |-> "host"]

\* the configurations of the initialisation flags, over positive dimensions
InitConfigs ==
    {MakeCfg(PyInt(n), PyInt(m), o, h, z, t, FALSE, FALSE, TRUE, Float32) :
        n \in 1..MaxDIn, m \in 1..MaxDSae,
        o \in BOOLEAN, h \in BOOLEAN, z \in BOOLEAN, t \in BOOLEAN}

NoCfg == MakeCfg(PyNone, PyNone, FALSE, FALSE, FALSE, FALSE, FALSE, FALSE, FALSE,
                 Float32)

DIn == cfg.d_in.val
DSae == cfg.d_sae.val

----------------------------------------------------------------------------
(* The decoder-norm utilities, as functions of self.W_dec.data.            *)

\* set_decoder_norm_to_unit_norm
UnitNormRows(W) == [i \in 1..Len(W) |-> VDiv(W[i], Norm(W[i]))]

\* initialize_decoder_norm_constant_norm(norm): the rows are unit-normalised
\* and multiplied by the literal 0.1; the argument is not read
ConstantNormRows(W, norm) ==
    [i \in 1..Len(W) |-> Scale(VDiv(W[i], Norm(W[i])), Rat(1, 10))]

----------------------------------------------------------------------------
(* The record of the most recent call.                                     *)

Call(op, result) ==
    [op |-> op, result |-> result,
     norm |-> Zero, mask |-> NoneOpt, sparsity |-> NoneOpt,
     projections |-> call.projections, after_save |-> FALSE]

----------------------------------------------------------------------------
(* SparseAutoencoder.__init__, in the order of its statements.             *)

\* CtorBegin without the isinstance check of d_in
CtorBeginUnchecked(C) ==
    /\ pc = "new"
    /\ \E c \in C :
        /\ cfg' = c
        /\ IF c.d_sae.type = "NoneType"
           THEN /\ pc' = "failed"
                /\ call' = Call("__init__", "AssertionError")
                /\ b_enc' = b_enc
           ELSE IF c.d_sae.val < 0
           THEN /\ pc' = "failed"
                /\ call' = Call("__init__", "RuntimeError")
                /\ b_enc' = b_enc
           ELSE /\ pc' = "init_dec"
                /\ call' = Call("__init__", "running")
                /\ b_enc' = Const(c.d_sae.val, Zero)
    /\ UNCHANGED <<W_enc, W_dec, b_dec, scaling_factor, W_dec_grad, training, out>>

\* the d_in check, the d_sae assertion, the scalar fields and b_enc
CtorBegin(C) ==
    /\ pc = "new"
    /\ \E c \in C :
        /\ cfg' = c
        /\ IF c.d_in.type # "int"
           THEN /\ pc' = "failed"
                /\ call' = Call("__init__", "ValueError")
                /\ b_enc' = b_enc
           ELSE IF c.d_sae.type = "NoneType"
           THEN /\ pc' = "failed"
                /\ call' = Call("__init__", "AssertionError")
                /\ b_enc' = b_enc
           ELSE IF c.d_sae.val < 0
           THEN \* torch.zeros of a negative size
                /\ pc' = "failed"
                /\ call' = Call("__init__", "RuntimeError")
                /\ b_enc' = b_enc
           ELSE /\ pc' = "init_dec"
                /\ call' = Call("__init__", "running")
                /\ b_enc' = Const(c.d_sae.val, Zero)
    /\ UNCHANGED <<W_enc, W_dec, b_dec, scaling_factor, W_dec_grad, training, out>>

\* the decoder initialisation branch
InitDecoder(c, s) ==
    LET m == c.d_sae.val
        n == c.d_in.val
    IN  IF c.decoder_orthogonal_init
        THEN Transpose(Orthogonal(n, m, s), n, m)
        ELSE IF c.decoder_heuristic_init
        THEN ConstantNormRows(TorchRand(m, n, s), Rat(1, 10))
        ELSE IF c.normalize_sae_decoder
        THEN UnitNormRows(KaimingUniform(m, n, s))
        ELSE KaimingUniform(m, n, s)

CtorInitDecoder ==
    /\ pc = "init_dec"
    /\ IF DIn < 0
       THEN \* torch.empty of a negative size
            /\ pc' = "failed"
            /\ call' = Call("__init__", "RuntimeError")
            /\ b_enc' = <<>>
            /\ W_dec' = W_dec
       ELSE /\ \E s \in Seeds : W_dec' = InitDecoder(cfg, s)
            /\ pc' = "init_enc"
            /\ UNCHANGED <<call, b_enc>>
    /\ UNCHANGED <<cfg, W_enc, b_dec, scaling_factor, W_dec_grad, training, out>>

\* InitEncoder with the copy taken after the unit-norm pass
InitEncoderAfterNorm(c, Wd, s) ==
    IF c.init_encoder_as_decoder_transpose
    THEN Transpose(IF c.normalize_sae_decoder THEN UnitNormRows(Wd) ELSE Wd,
                   c.d_sae.val, c.d_in.val)
    ELSE KaimingUniform(c.d_in.val, c.d_sae.val, s)

\* the encoder: a copy of the decoder's transpose, or a Kaiming draw
InitEncoder(c, Wd, s) ==
    IF c.init_encoder_as_decoder_transpose
    THEN Transpose(Wd, c.d_sae.val, c.d_in.val)
    ELSE KaimingUniform(c.d_in.val, c.d_sae.val, s)

CtorInitEncoder ==
    /\ pc = "init_enc"
    /\ \E s \in Seeds : W_enc' = InitEncoder(cfg, W_dec, s)
    /\ pc' = "final"
    /\ UNCHANGED <<cfg, b_enc, W_dec, b_dec, scaling_factor, W_dec_grad,
                   training, call, out>>

\* FinalDecoder without the unit-norm pass
FinalDecoderSkipped(c, Wd) == Wd

\* the final unit-norm pass
FinalDecoder(c, Wd) ==
    IF c.normalize_sae_decoder THEN UnitNormRows(Wd) ELSE Wd

\* the final unit-norm pass, b_dec and scaling_factor
CtorFinish ==
    /\ pc = "final"
    /\ W_dec' = FinalDecoder(cfg, W_dec)
    /\ b_dec' = Const(DIn, Zero)
    /\ scaling_factor' = Const(DSae, One)
    /\ pc' = "ready"
    /\ call' = Call("__init__", "ok")
    /\ UNCHANGED <<cfg, W_enc, b_enc, W_dec_grad, training, out>>

Constructed == pc = "ready"

NoOut == [loss |-> Zero, mse_loss |-> Zero, l1_loss |-> Zero,
          ghost_grad_loss |-> Zero, ghost_called |-> FALSE,
          sae_out |-> <<>>, feature_acts |-> <<>>]

SaeInit ==
    /\ pc = "new"
    /\ cfg = NoCfg
    /\ W_enc = <<>>
    /\ b_enc = <<>>
    /\ W_dec = <<>>
    /\ b_dec = <<>>
    /\ scaling_factor = <<>>
    /\ W_dec_grad = NoneOpt
    /\ training = TRUE
    /\ call = [op |-> "none", result |-> "ok",
               norm |-> Zero, mask |-> NoneOpt, sparsity |-> NoneOpt,
               projections |-> 0, after_save |-> FALSE]
    /\ out = NoOut

----------------------------------------------------------------------------
(* The decoder-norm utilities and the gradient projection, as calls.       *)

SetDecoderNormToUnitNorm ==
    /\ Constructed
    /\ W_dec' = UnitNormRows(W_dec)
    /\ call' = Call("set_decoder_norm_to_unit_norm", "ok")
    /\ UNCHANGED <<pc, cfg, W_enc, b_enc, b_dec, scaling_factor, W_dec_grad,
                   training, out>>

\* the values of the norm argument
NormArgs == {Rat(1, 10), Rat(1, 2), One}

InitializeDecoderNormConstantNorm ==
    /\ Constructed
    /\ \E norm \in NormArgs :
        /\ W_dec' = ConstantNormRows(W_dec, norm)
        /\ call' = [Call("initialize_decoder_norm_constant_norm", "ok")
                        EXCEPT !.norm = norm]
    /\ UNCHANGED <<pc, cfg, W_enc, b_enc, b_dec, scaling_factor, W_dec_grad,
                   training, out>>

\* a gradient autograd leaves in W_dec.grad
GradDraw(m, n, s) ==
    [i \in 1..m |-> [j \in 1..n |-> Rat(((i + 2 * j + s) % 3) - 1, 1)]]

\* loss.backward() of the caller: W_dec.grad holds a gradient
Backward ==
    /\ Constructed
    /\ IsNone(W_dec_grad)
    /\ \E s \in Seeds : W_dec_grad' = Some(GradDraw(DSae, DIn, s))
    /\ call' = [Call("backward", "ok") EXCEPT !.projections = 0]
    /\ UNCHANGED <<pc, cfg, W_enc, b_enc, W_dec, b_dec, scaling_factor,
                   training, out>>

\* zero_grad(set_to_none) of the caller
ZeroGrad ==
    /\ Constructed
    /\ ~IsNone(W_dec_grad)
    /\ W_dec_grad' = NoneOpt
    /\ call' = [Call("zero_grad", "ok") EXCEPT !.projections = 0]
    /\ UNCHANGED <<pc, cfg, W_enc, b_enc, W_dec, b_dec, scaling_factor,
                   training, out>>

\* ProjectedGrad with the parallel component subtracted from the first row only
ProjectedGradFirstRow(g, W) ==
    [i \in 1..Len(g) |->
        IF i = 1 THEN VSub(g[i], Scale(W[i], Dot(g[i], W[i]))) ELSE g[i]]

\* grad - einsum(einsum(grad, W, "s i, s i -> s"), W, "s, s i -> s i")
ProjectedGrad(g, W) ==
    [i \in 1..Len(g) |-> VSub(g[i], Scale(W[i], Dot(g[i], W[i])))]

\* RemoveGradientParallelToDecoderDirections without the assertion: a missing
\* gradient is taken as zero
RemoveGradientUnchecked ==
    /\ Constructed
    /\ call.projections < MaxProjections
    /\ LET g == IF IsNone(W_dec_grad) THEN [i \in 1..DSae |-> Const(DIn, Zero)]
                ELSE Get(W_dec_grad)
       IN  W_dec_grad' = Some(ProjectedGrad(g, W_dec))
    /\ call' = [Call("remove_gradient_parallel_to_decoder_directions", "ok")
                    EXCEPT !.projections = call.projections + 1]
    /\ UNCHANGED <<pc, cfg, W_enc, b_enc, W_dec, b_dec, scaling_factor,
                   training, out>>

RemoveGradientParallelToDecoderDirections ==
    /\ Constructed
    /\ IF IsNone(W_dec_grad)
       THEN /\ call' = Call("remove_gradient_parallel_to_decoder_directions",
                            "AssertionError")
            /\ UNCHANGED W_dec_grad
       ELSE /\ call.projections < MaxProjections
            /\ W_dec_grad' = Some(ProjectedGrad(Get(W_dec_grad), W_dec))
            /\ call' = [Call("remove_gradient_parallel_to_decoder_directions", "ok")
                            EXCEPT !.projections = call.projections + 1]
    /\ UNCHANGED <<pc, cfg, W_enc, b_enc, W_dec, b_dec, scaling_factor,
                   training, out>>

----------------------------------------------------------------------------
(* The instance under construction and the in-place utilities.             *)

\* the checkpoint directory: whether it exists and its three files; saves
\* counts the save_model calls and last_sparsity is the number of the last
\* call that was given a sparsity tensor (0: none yet)
NoDisk == [exists |-> FALSE, weights |-> NoneOpt, cfg |-> NoneOpt,
           sparsity |-> NoneOpt, saves |-> 0, last_sparsity |-> 0]

RestInit ==
    /\ disk = NoDisk
    /\ loaded = NoneOpt
    /\ tree = [phase |-> "none", root |-> 0, mods |-> <<>>]
    /\ heapTop = 0

Init == SaeInit /\ RestInit

Next ==
    \/ (CtorBegin(InitConfigs) /\ UNCHANGED <<disk, loaded, tree, heapTop>>)
    \/ (CtorInitDecoder /\ UNCHANGED <<disk, loaded, tree, heapTop>>)
    \/ (CtorInitEncoder /\ UNCHANGED <<disk, loaded, tree, heapTop>>)
    \/ (CtorFinish /\ UNCHANGED <<disk, loaded, tree, heapTop>>)
    \/ (SetDecoderNormToUnitNorm /\ UNCHANGED <<disk, loaded, tree, heapTop>>)
    \/ (InitializeDecoderNormConstantNorm /\ UNCHANGED <<disk, loaded, tree, heapTop>>)
    \/ (Backward /\ UNCHANGED <<disk, loaded, tree, heapTop>>)
    \/ (ZeroGrad /\ UNCHANGED <<disk, loaded, tree, heapTop>>)
    \/ (RemoveGradientParallelToDecoderDirections
            /\ UNCHANGED <<disk, loaded, tree, heapTop>>)

Spec == Init /\ [][Next]_vars

----------------------------------------------------------------------------
(* Claims about construction and the decoder utilities (under Spec).       *)

JustConstructed == pc = "ready" /\ call.op = "__init__"

UnitRows(W) == \A i \in 1..Len(W) : NormSq(W[i]) = One

\* C2: when normalize_sae_decoder is true, immediately after construction
\* every row of W_dec has L2 norm 1, whichever initialisation branch ran.
C2_UnitNormAfterConstruction ==
    (JustConstructed /\ cfg.normalize_sae_decoder) => UnitRows(W_dec)

\* C2 witness: an instance built by the heuristic branch (rows of norm 0.1
\* before the final pass) with normalize_sae_decoder set.
C2_Witness ==
    /\ JustConstructed
    /\ cfg.normalize_sae_decoder
    /\ cfg.decoder_heuristic_init
    /\ ~cfg.decoder_orthogonal_init
    /\ cfg.init_encoder_as_decoder_transpose
    /\ UnitRows(W_dec)

Projected ==
    /\ call.op = "remove_gradient_parallel_to_decoder_directions"
    /\ call.result = "ok"

C6_RowsHaveRequestedNorm ==
    call.op = "initialize_decoder_norm_constant_norm" =>
        \A i \in 1..Len(W_dec) : NormSq(W_dec[i]) = RMul(call.norm, call.norm)

\* C7: remove_gradient_parallel_to_decoder_directions with W_dec.grad None
\* fails with the assertion and changes no parameter and no gradient.
C7_NoGradientFails ==
    [][(call'.op = "remove_gradient_parallel_to_decoder_directions"
            /\ IsNone(W_dec_grad))
        => (/\ call'.result = "AssertionError"
            /\ UNCHANGED <<W_enc, b_enc, W_dec, b_dec, scaling_factor,
                           W_dec_grad>>)]_vars

\* C7 witness: the call has failed on an instance without a gradient.
C7_Witness ==
    /\ call.op = "remove_gradient_parallel_to_decoder_directions"
    /\ call.result = "AssertionError"
    /\ IsNone(W_dec_grad)

\* C8: with init_encoder_as_decoder_transpose the constructor runs the
\* decoder branch, then copies W_dec transposed into W_enc, then runs the
\* final unit-norm pass on W_dec; W_enc is the transpose of W_dec as it
\* stood before the final pass and no later change of W_dec changes it.
C8_EncoderCopiedBeforeFinalPass ==
    [][/\ pc' = "init_enc" => pc \in {"init_dec", "init_enc"}
       /\ pc' = "final" => pc \in {"init_enc", "final"}
       /\ pc' = "ready" => pc \in {"final", "ready"}
       /\ (pc = "init_enc" /\ pc' = "final"
                /\ cfg.init_encoder_as_decoder_transpose)
            => (W_enc' = Transpose(W_dec, DSae, DIn) /\ W_dec' = W_dec)
       /\ (pc = "final" /\ pc' = "ready")
            => (/\ W_enc' = W_enc
                /\ cfg.normalize_sae_decoder => UnitRows(W_dec')
                /\ ~cfg.normalize_sae_decoder => W_dec' = W_dec)
       /\ pc = "ready" => W_enc' = W_enc]_vars

\* C8 witness: a constructed instance whose encoder is the transpose of the
\* decoder before the final pass and no longer of the decoder after it.
C8_Witness ==
    /\ JustConstructed
    /\ cfg.init_encoder_as_decoder_transpose
    /\ cfg.normalize_sae_decoder
    /\ W_enc # Transpose(W_dec, DSae, DIn)
    /\ W_enc = Transpose(ConstantNormRows(W_dec, Rat(1, 10)), DSae, DIn)

----------------------------------------------------------------------------
(* The constructor over configurations of every kind of d_in and d_sae.    *)

DInValues == {PyInt(n) : n \in -1..MaxDIn} \cup {PyFloat(2), PyNone}
DSaeValues == {PyInt(m) : m \in -1..MaxDSae} \cup {PyNone}

AnyConfigs ==
    {MakeCfg(n, m, o, h, z, t, FALSE, FALSE, TRUE, Float32) :
        n \in DInValues, m \in DSaeValues,
        o \in BOOLEAN, h \in BOOLEAN, z \in BOOLEAN, t \in BOOLEAN}

NextCtor ==
    \/ (CtorBegin(AnyConfigs) /\ UNCHANGED <<disk, loaded, tree, heapTop>>)
    \/ (CtorInitDecoder /\ UNCHANGED <<disk, loaded, tree, heapTop>>)
    \/ (CtorInitEncoder /\ UNCHANGED <<disk, loaded, tree, heapTop>>)
    \/ (CtorFinish /\ UNCHANGED <<disk, loaded, tree, heapTop>>)

SpecCtor == Init /\ [][NextCtor]_vars

CtorDone == pc \in {"ready", "failed"}

\* C5 as claimed: construction fails with an error and yields no instance
\* unless d_in is a positive integer and d_sae is present, and succeeds only
\* then.
C5_Original ==
    CtorDone =>
        LET valid == /\ cfg.d_in.type = "int"
                     /\ cfg.d_in.val > 0
                     /\ cfg.d_sae.type # "NoneType"
        IN  /\ pc = "ready" => valid
            /\ ~valid => (/\ pc = "failed"
                          /\ call.result \in {"ValueError", "AssertionError",
                                               "RuntimeError"})

\* C5 as amended: a d_in that is not an integer fails with ValueError; an
\* absent d_sae fails the assertion; an integer d_in is not checked for its
\* sign, so construction succeeds exactly when d_in and d_sae are integers
\* >= 0 (d_in = 0 included), and a negative size fails in the tensor library.
C5_Amended ==
    CtorDone =>
        /\ cfg.d_in.type # "int" <=> (pc = "failed" /\ call.result = "ValueError")
        /\ (cfg.d_in.type = "int" /\ cfg.d_sae.type = "NoneType")
            <=> (pc = "failed" /\ call.result = "AssertionError")
        /\ (cfg.d_in.type = "int" /\ cfg.d_sae.type = "int"
                /\ (cfg.d_in.val < 0 \/ cfg.d_sae.val < 0))
            <=> (pc = "failed" /\ call.result = "RuntimeError")
        /\ pc = "ready" <=> (/\ cfg.d_in.type = "int" /\ cfg.d_in.val >= 0
                             /\ cfg.d_sae.type = "int" /\ cfg.d_sae.val >= 0)

\* C5 witness: construction with a float d_in has failed with ValueError.
C5_Witness ==
    /\ pc = "failed"
    /\ cfg.d_in.type = "float"
    /\ call.result = "ValueError"

----------------------------------------------------------------------------
(* encode, decode and forward.  A batch is a sequence of vectors.          *)

Mean(v) == RDiv(RSum(v), Rat(Len(v), 1))
Relu(a) == IF RPos(a) THEN a ELSE Zero
Eps == Rat(1, 1000000)

\* v.norm(p): p = 1 and p = 2
LpNorm(v, p) ==
    IF p = 1 THEN RSum([k \in 1..Len(v) |-> RAbs(v[k])]) ELSE Norm(v)

\* _encode_with_hidden_pre; noise is what torch.randn_like returned
HiddenPre(x) ==
    [b \in 1..Len(x) |-> [k \in 1..DSae |->
        RAdd(RSum([j \in 1..DIn |->
                RMul(RSub(x[b][j],
                          IF cfg.apply_b_dec_to_input THEN b_dec[j] ELSE Zero),
                     W_enc[j][k])]),
             b_enc[k])]]

FeatureActs(hidden_pre, noise) ==
    [b \in 1..Len(hidden_pre) |-> [k \in 1..DSae |->
        Relu(IF RPos(cfg.noise_scale)
             THEN RAdd(hidden_pre[b][k], RMul(noise[b][k], cfg.noise_scale))
             ELSE hidden_pre[b][k])]]

\* decode
Decode(feature_acts) ==
    [b \in 1..Len(feature_acts) |-> [j \in 1..DIn |->
        RAdd(RSum([k \in 1..DSae |->
                RMul(RMul(feature_acts[b][k], scaling_factor[k]), W_dec[k][j])]),
             b_dec[j])]]

\* _per_item_mse_loss_with_target_norm
PerItemMseLossWithTargetNorm(preds, target, normalization) ==
    LET sq == [b \in 1..Len(preds) |-> [j \in 1..Len(preds[b]) |->
                  RMul(RSub(preds[b][j], target[b][j]),
                       RSub(preds[b][j], target[b][j]))]]
    IN  IF normalization = "dense_batch"
        THEN LET mean == [j \in 1..Len(target[1]) |->
                            Mean([b \in 1..Len(target) |-> target[b][j]])]
                 nrm == [b \in 1..Len(target) |-> Norm(VSub(target[b], mean))]
             IN  [b \in 1..Len(sq) |-> VDiv(sq[b], RAdd(nrm[b], Eps))]
        ELSE sq

\* get_sparsity_loss_term_standard / get_sparsity_loss_term_decoder_norm,
\* as selected at construction
SparsityLossTerm(feature_acts) ==
    [b \in 1..Len(feature_acts) |->
        IF cfg.scale_sparsity_penalty_by_decoder_norm
        THEN LpNorm([k \in 1..DSae |->
                        RMul(feature_acts[b][k], Norm(W_dec[k]))], cfg.lp_norm)
        ELSE LpNorm(feature_acts[b], cfg.lp_norm)]

\* dead_neuron_mask.sum()
RECURSIVE MaskSum(_)
MaskSum(m) ==
    IF m = <<>> THEN 0 ELSE (IF m[1] THEN 1 ELSE 0) + MaskSum(Tail(m))

\* GhostGate without the training check
GhostGateAnyMode(c, isTraining, mask) ==
    /\ c.use_ghost_grads
    /\ ~IsNone(mask)
    /\ MaskSum(Get(mask)) > 0

\* the condition under which forward calls calculate_ghost_grad_loss
GhostGate(c, isTraining, mask) ==
    /\ c.use_ghost_grads
    /\ isTraining
    /\ ~IsNone(mask)
    /\ MaskSum(Get(mask)) > 0

\* calculate_ghost_grad_loss: the mean over batch and features of
\* per_item_mse_loss * r / (r + 1e-6), r the ghost residual loss computed
\* from exp(hidden_pre) of the dead neurons; ratio stands for r / (r + 1e-6)
CalculateGhostGradLoss(per_item_mse_loss, ratio) ==
    RMul(ratio,
         Mean([b \in 1..Len(per_item_mse_loss) |-> Mean(per_item_mse_loss[b])]))

GhostRatios == {Rat(1, 2), Rat(9, 10)}

\* the batches forward is called with
Batch(n, s) ==
    [b \in 1..2 |-> [j \in 1..n |-> Rat((b + j + s) % 3, 1)]]

\* the dead_neuron_mask arguments: None, or the first d neurons marked dead
Masks(m) == {NoneOpt} \cup {Some([k \in 1..m |-> k <= d]) : d \in 0..m}

\* mse_loss: the mean over the batch of the per-item sums
MseLoss(per_item) == Mean([b \in 1..Len(per_item) |-> RSum(per_item[b])])

\* l1_loss: the mean over the batch of l1_coefficient * sparsity
L1Loss(feature_acts) ==
    LET sparsity == SparsityLossTerm(feature_acts)
    IN  Mean([b \in 1..Len(feature_acts) |->
                RMul(cfg.l1_coefficient, sparsity[b])])

\* forward(x, dead_neuron_mask); each tensor is computed once
Forward ==
    /\ Constructed
    /\ \E s \in Seeds :
       \E x \in {Batch(DIn, s)} :
       \E hidden_pre \in {HiddenPre(x)} :
       \E feature_acts \in {FeatureActs(hidden_pre, hidden_pre)} :
       \E sae_out \in {Decode(feature_acts)} :
       \E per_item \in {PerItemMseLossWithTargetNorm(
                            sae_out, x, cfg.mse_loss_normalization)} :
       \E mse_loss \in {MseLoss(per_item)}, l1_loss \in {L1Loss(feature_acts)} :
       \E mask \in Masks(DSae) :
       \E gate \in {GhostGate(cfg, training, mask)} :
       \E ghost \in IF gate
                     THEN {CalculateGhostGradLoss(per_item, r) : r \in GhostRatios}
                     ELSE {Zero} :
            /\ out' = [sae_out |-> sae_out,
                       feature_acts |-> feature_acts,
                       loss |-> RAdd(RAdd(mse_loss, l1_loss), ghost),
                       mse_loss |-> mse_loss,
                       l1_loss |-> l1_loss,
                       ghost_grad_loss |-> ghost,
                       ghost_called |-> gate]
            /\ call' = [Call("forward", "ok") EXCEPT !.mask = mask]
    /\ UNCHANGED <<pc, cfg, W_enc, b_enc, W_dec, b_dec, scaling_factor,
                   W_dec_grad, training>>

\* nn.Module.train(mode) / eval()
SetTraining ==
    /\ Constructed
    /\ training' = ~training
    /\ call' = Call("train", "ok")
    /\ UNCHANGED <<pc, cfg, W_enc, b_enc, W_dec, b_dec, scaling_factor,
                   W_dec_grad, out>>

\* initialize_b_dec_with_precalculated(origin)
InitializeBDecWithPrecalculated ==
    /\ Constructed
    /\ \E s \in Seeds : b_dec' = [j \in 1..DIn |-> Rat((j + s) % 2, 2)]
    /\ call' = Call("initialize_b_dec_with_precalculated", "ok")
    /\ UNCHANGED <<pc, cfg, W_enc, b_enc, W_dec, scaling_factor,
                   W_dec_grad, training, out>>

\* the configurations of the loss flags
LossConfigs ==
    {MakeCfg(PyInt(n), PyInt(m), FALSE, FALSE, z, TRUE, g, d, a, Float32) :
        n \in {MaxDIn}, m \in {MaxDSae},
        z \in BOOLEAN, g \in BOOLEAN, d \in BOOLEAN, a \in BOOLEAN}

NextForward ==
    \/ (CtorBegin(LossConfigs) /\ UNCHANGED <<disk, loaded, tree, heapTop>>)
    \/ (CtorInitDecoder /\ UNCHANGED <<disk, loaded, tree, heapTop>>)
    \/ (CtorInitEncoder /\ UNCHANGED <<disk, loaded, tree, heapTop>>)
    \/ (CtorFinish /\ UNCHANGED <<disk, loaded, tree, heapTop>>)
    \/ (SetTraining /\ UNCHANGED <<disk, loaded, tree, heapTop>>)
    \/ (InitializeBDecWithPrecalculated /\ UNCHANGED <<disk, loaded, tree, heapTop>>)
    \/ (Forward /\ UNCHANGED <<disk, loaded, tree, heapTop>>)

SpecForward == Init /\ [][NextForward]_vars

\* C1: when use_ghost_grads is false, or the model is not in training mode,
\* or dead_neuron_mask is None, or the mask marks no neuron, forward does not
\* call calculate_ghost_grad_loss, returns ghost_grad_loss = 0 and
\* loss = mse_loss + l1_loss; the ghost term is computed only when all four
\* conditions hold.
C1_GhostTermGated ==
    call.op = "forward" =>
        LET all4 == /\ cfg.use_ghost_grads
                    /\ training
                    /\ ~IsNone(call.mask)
                    /\ \E k \in 1..DSae : Get(call.mask)[k]
        IN  /\ ~all4 => (/\ ~out.ghost_called
                         /\ out.ghost_grad_loss = Zero
                         /\ out.loss = RAdd(out.mse_loss, out.l1_loss))
            /\ out.ghost_called => all4

\* C1 witness: a forward in eval mode with use_ghost_grads set and a mask
\* that marks a dead neuron returned a non-zero loss without the ghost term.
C1_Witness ==
    /\ call.op = "forward"
    /\ cfg.use_ghost_grads
    /\ ~training
    /\ ~IsNone(call.mask)
    /\ \E k \in 1..DSae : Get(call.mask)[k]
    /\ ~out.ghost_called
    /\ out.mse_loss # Zero
    /\ out.l1_loss # Zero
    /\ out.loss = RAdd(out.mse_loss, out.l1_loss)

----------------------------------------------------------------------------
(* save_model and load_from_pretrained.                                    *)

ParamNames == {"W_enc", "b_enc", "W_dec", "b_dec", "scaling_factor"}

\* self.state_dict(): the five nn.Parameter attributes by name
StateDict ==
    [k \in ParamNames |->
        CASE k = "W_enc" -> W_enc
          [] k = "b_enc" -> b_enc
          [] k = "W_dec" -> W_dec
          [] k = "b_dec" -> b_dec
          [] k = "scaling_factor" -> scaling_factor]

\* safetensors save_file / load_file: a file of (name, tensor) entries
SaveFile(sd) == {<<k, sd[k]>> : k \in DOMAIN sd}
LoadFile(f) ==
    [k \in {e[1] : e \in f} |-> (CHOOSE e \in f : e[1] = k)[2]]

\* str(torch.dtype)
DTypeStr(d) == IF d = Float32 THEN "torch.float32" ELSE "torch.float64"

\* the record json.dump writes: cfg.__dict__ with dtype and device as strings
ConfigJson(c, device) ==
    [d_in |-> c.d_in.val,
     d_sae |-> c.d_sae.val,
     l1_coefficient |-> c.l1_coefficient,
     lp_norm |-> c.lp_norm,
     dtype |-> DTypeStr(c.dtype),
     device |-> device,
     use_ghost_grads |-> c.use_ghost_grads,
     normalize_sae_decoder |-> c.normalize_sae_decoder,
     noise_scale |-> c.noise_scale,
     apply_b_dec_to_input |-> c.apply_b_dec_to_input,
     decoder_orthogonal_init |-> c.decoder_orthogonal_init,
     decoder_heuristic_init |-> c.decoder_heuristic_init,
     init_encoder_as_decoder_transpose |-> c.init_encoder_as_decoder_transpose,
     scale_sparsity_penalty_by_decoder_norm |->
        c.scale_sparsity_penalty_by_decoder_norm,
     mse_loss_normalization |->
        IF c.mse_loss_normalization = None THEN "null"
        ELSE c.mse_loss_normalization,
     model_name |-> c.model_name]

\* the sparsity tensors save_model is given
SparsityArgs == {NoneOpt, Some(<<Rat(1, 10), Rat(-3, 1)>>)}

\* SaveModel that writes the sparsity file on every call (an empty record
\* when no sparsity is given)
SaveModelAlwaysSparsity ==
    /\ Constructed
    /\ disk.saves < MaxSaves
    /\ \E sparsity \in SparsityArgs :
        LET n == disk.saves + 1
        IN  /\ disk' = [exists |-> TRUE,
                        weights |-> Some([by |-> n, content |-> SaveFile(StateDict)]),
                        cfg |-> Some([by |-> n, content |-> ConfigJson(cfg, "cpu")]),
                        sparsity |->
                            Some([by |-> n,
                                  content |->
                                    IF IsNone(sparsity) THEN {}
                                    ELSE SaveFile([sparsity |-> Get(sparsity)])]),
                        saves |-> n,
                        last_sparsity |->
                            IF IsNone(sparsity) THEN disk.last_sparsity ELSE n]
            /\ call' = [Call("save_model", "ok") EXCEPT !.sparsity = sparsity]
    /\ UNCHANGED <<pc, cfg, W_enc, b_enc, W_dec, b_dec, scaling_factor,
                   W_dec_grad, training, out, loaded>>

\* save_model(path, sparsity): mkdir when the directory is absent, the
\* weights file, the config file and, when sparsity is given, the sparsity file
SaveModel ==
    /\ Constructed
    /\ disk.saves < MaxSaves
    /\ \E sparsity \in SparsityArgs :
        LET n == disk.saves + 1
        IN  /\ disk' = [exists |-> TRUE,
                        weights |-> Some([by |-> n, content |-> SaveFile(StateDict)]),
                        cfg |-> Some([by |-> n, content |-> ConfigJson(cfg, "cpu")]),
                        sparsity |->
                            IF IsNone(sparsity) THEN disk.sparsity
                            ELSE Some([by |-> n,
                                       content |-> SaveFile([sparsity |-> Get(sparsity)])]),
                        saves |-> n,
                        last_sparsity |->
                            IF IsNone(sparsity) THEN disk.last_sparsity ELSE n]
            /\ call' = [Call("save_model", "ok") EXCEPT !.sparsity = sparsity]
    /\ UNCHANGED <<pc, cfg, W_enc, b_enc, W_dec, b_dec, scaling_factor,
                   W_dec_grad, training, out, loaded>>

\* load_pretrained_sae_lens_sae_components: the SaeConfig parsed from the
\* JSON record
ParseDType(str) == IF str = "torch.float32" THEN Float32 ELSE Float64
ConfigFromJson(j) ==
    [d_in |-> PyInt(j.d_in),
     d_sae |-> PyInt(j.d_sae),
     l1_coefficient |-> j.l1_coefficient,
     lp_norm |-> j.lp_norm,
     dtype |-> ParseDType(j.dtype),
     use_ghost_grads |-> j.use_ghost_grads,
     normalize_sae_decoder |-> j.normalize_sae_decoder,
     noise_scale |-> j.noise_scale,
     apply_b_dec_to_input |-> j.apply_b_dec_to_input,
     decoder_orthogonal_init |-> j.decoder_orthogonal_init,
     decoder_heuristic_init |-> j.decoder_heuristic_init,
     init_encoder_as_decoder_transpose |-> j.init_encoder_as_decoder_transpose,
     scale_sparsity_penalty_by_decoder_norm |->
        j.scale_sparsity_penalty_by_decoder_norm,
     mse_loss_normalization |->
        IF j.mse_loss_normalization = "null" THEN None
        ELSE j.mse_loss_normalization,
     model_name |-> j.model_name]

\* cls(cfg): what __init__ leaves in a fresh instance, its statements in order
Construct(c, s1, s2) ==
    [W_enc |-> InitEncoder(c, InitDecoder(c, s1), s2),
     b_enc |-> Const(c.d_sae.val, Zero),
     W_dec |-> FinalDecoder(c, InitDecoder(c, s1)),
     b_dec |-> Const(c.d_in.val, Zero),
     scaling_factor |-> Const(c.d_sae.val, One)]

\* torch.Size of the tensor t held under parameter name k
Shape(k, t) ==
    IF k \in {"W_enc", "W_dec"}
    THEN <<Len(t), IF Len(t) = 0 THEN 0 ELSE Len(t[1])>>
    ELSE <<Len(t)>>

\* LoadStateDict that leaves the parameters of the fresh instance in place
LoadStateDictIgnored(fresh, sd) == [result |-> "ok", params |-> fresh]

\* nn.Module.load_state_dict(state_dict), strict: every parameter is
\* overwritten by the entry of its name; a missing or unexpected key or a
\* shape mismatch is an error
LoadStateDict(fresh, sd) ==
    IF DOMAIN sd = ParamNames
        /\ \A k \in ParamNames : Shape(k, sd[k]) = Shape(k, fresh[k])
    THEN [result |-> "ok", params |-> [k \in ParamNames |-> sd[k]]]
    ELSE [result |-> "RuntimeError", params |-> fresh]

\* load_from_pretrained(path, device)
LoadFromPretrained ==
    /\ Constructed
    /\ disk.saves > 0
    /\ \E s1 \in Seeds :
       \E s2 \in {(s1 % NumSeeds) + 1} :
       \E c \in {ConfigFromJson(Get(disk.cfg).content)} :
       \E sd \in {LoadFile(Get(disk.weights).content)} :
       \E fresh \in {Construct(c, s1, s2)} :
       \E got \in {LoadStateDict(fresh, sd)} :
            loaded' = Some([cfg |-> c, result |-> got.result,
                            W_enc |-> got.params.W_enc,
                            b_enc |-> got.params.b_enc,
                            W_dec |-> got.params.W_dec,
                            b_dec |-> got.params.b_dec,
                            scaling_factor |-> got.params.scaling_factor])
    /\ call' = [Call("load_from_pretrained", "ok")
                    EXCEPT !.after_save = (call.op = "save_model")]
    /\ UNCHANGED <<pc, cfg, W_enc, b_enc, W_dec, b_dec, scaling_factor,
                   W_dec_grad, training, out, disk>>

\* the configurations that are saved and loaded
PersistConfigs ==
    {MakeCfg(PyInt(n), PyInt(m), FALSE, h, z, t, FALSE, FALSE, TRUE, d) :
        n \in {MaxDIn}, m \in {MaxDSae},
        h \in BOOLEAN, z \in BOOLEAN, t \in BOOLEAN, d \in {Float32, Float64}}

NextPersist ==
    \/ (CtorBegin(PersistConfigs) /\ UNCHANGED <<disk, loaded, tree, heapTop>>)
    \/ (CtorInitDecoder /\ UNCHANGED <<disk, loaded, tree, heapTop>>)
    \/ (CtorInitEncoder /\ UNCHANGED <<disk, loaded, tree, heapTop>>)
    \/ (CtorFinish /\ UNCHANGED <<disk, loaded, tree, heapTop>>)
    \/ (InitializeBDecWithPrecalculated /\ UNCHANGED <<disk, loaded, tree, heapTop>>)
    \/ (SaveModel /\ UNCHANGED <<tree, heapTop>>)
    \/ (LoadFromPretrained /\ UNCHANGED <<tree, heapTop>>)

SpecPersist == Init /\ [][NextPersist]_vars


AfterSave == call.op = "save_model"

C9_Original ==
    AfterSave =>
        /\ Get(disk.weights).by = disk.saves
        /\ Get(disk.cfg).by = disk.saves
        /\ ~IsNone(disk.sparsity) <=> ~IsNone(call.sparsity)
        /\ ~IsNone(disk.sparsity) => Get(disk.sparsity).by = disk.saves

\* C9 as amended: after any sequence of save_model calls on a directory
\* that held no sparsity file, the weights file and the config file come
\* from the most recent call and hold its state_dict and config; the
\* sparsity file comes from the most recent call that supplied sparsity and
\* is present iff some call did: a call without sparsity leaves it in place.
C9_Amended ==
    AfterSave =>
        /\ disk.exists
        /\ Get(disk.weights).by = disk.saves
        /\ LoadFile(Get(disk.weights).content) = StateDict
        /\ Get(disk.cfg).by = disk.saves
        /\ Get(disk.cfg).content.d_in = DIn
        /\ Get(disk.cfg).content.dtype = DTypeStr(cfg.dtype)
        /\ ~IsNone(call.sparsity) =>
                (/\ ~IsNone(disk.sparsity)
                 /\ Get(disk.sparsity).by = disk.saves
                 /\ LoadFile(Get(disk.sparsity).content).sparsity
                        = Get(call.sparsity))
        /\ IsNone(disk.sparsity) <=> disk.last_sparsity = 0
        /\ ~IsNone(disk.sparsity) =>
                Get(disk.sparsity).by = disk.last_sparsity

\* C9 witness: the most recent save_model call supplied no sparsity and the
\* directory holds the sparsity file of an earlier call.
C9_Witness ==
    /\ AfterSave
    /\ IsNone(call.sparsity)
    /\ ~IsNone(disk.sparsity)
    /\ Get(disk.sparsity).by < disk.saves
    /\ Get(disk.weights).by = disk.saves

----------------------------------------------------------------------------
(* replace_lora_linear on a host module tree.                              *)
(*                                                                         *)
(* tree.mods is the heap of nn.Module objects by identity (its index).     *)
(* A module record holds its kind, its _modules as a sequence of           *)
(* <<name, id>>, and, by reference, the objects it points to: an adapter   *)
(* layer its base_layer (a module id) and its lora_A, lora_B, scaling and  *)
(* lora_dropout containers; an nn.Linear its weight and bias.  A reference *)
(* <<tag, i>> is the object of that role created with module i; NoRef is   *)
(* None.                                                                   *)

NoRef == <<"None", 0>>

IsLoraLinear(kind) == kind \in {"LoraLinear", "LoraLinearWithHook"}

Module(kind, children) ==
    [kind |-> kind, children |-> children, base_layer |-> 0,
     lora_A |-> NoRef, lora_B |-> NoRef, scaling |-> NoRef,
     lora_dropout |-> NoRef, p |-> 0, weight |-> NoRef, bias |-> NoRef]

\* an nn.Linear created as object i; every second one has no bias
Linear(i) ==
    [Module("Linear", <<>>) EXCEPT
        !.weight = <<"weight", i>>,
        !.bias = IF i % 2 = 0 THEN <<"bias", i>> ELSE NoRef]

\* a peft LoraLinear (or the hook variant) created as object i around the
\* base layer object b
Adapter(kind, i, b) ==
    [Module(kind, <<>>) EXCEPT
        !.base_layer = b,
        !.lora_A = <<"lora_A", i>>,
        !.lora_B = <<"lora_B", i>>,
        !.scaling = <<"scaling", i>>,
        !.lora_dropout = <<"lora_dropout", i>>,
        !.p = i % 2]

Kinds == {"Container", "Linear", "LoraLinear", "LoraLinearWithHook"}

\* the children of node i, in registration order, named by their number
RECURSIVE ChildrenOf(_, _, _, _)
ChildrenOf(par, i, j, n) ==
    IF j > n THEN <<>>
    ELSE IF par[j] = i THEN <<<<j, j>>>> \o ChildrenOf(par, i, j + 1, n)
    ELSE ChildrenOf(par, i, j + 1, n)

\* the host tree of n modules with parents par and kinds kd; module n + i
\* is the base layer of adapter layer i
HostTree(n, par, kd) ==
    [phase |-> "host",
     root |-> 1,
     mods |-> [i \in 1..(2 * n) |->
        IF i > n THEN Linear(i)
        ELSE IF kd[i] = "Container"
             THEN Module("Container", ChildrenOf(par, i, 2, n))
        ELSE IF kd[i] = "Linear" THEN Linear(i)
        ELSE Adapter(kd[i], i, n + i)]]

\* the host trees: only a container has children
HostTrees ==
    UNION {{HostTree(n, par, kd) :
                par \in {q \in [1..n -> 0..(n - 1)] :
                            /\ q[1] = 0
                            /\ \A i \in 2..n : q[i] >= 1 /\ q[i] < i},
                kd \in {k \in [1..n -> Kinds] : TRUE}} :
           n \in 1..MaxNodes}

WellFormed(t) ==
    \A i \in 1..Len(t.mods) :
        t.mods[i].kind # "Container" => t.mods[i].children = <<>>

\* NewModule that keeps the lora_A the constructor created for the new layer
NewModuleOwnLoraA(mods, child, new) ==
    [Adapter("LoraLinearWithHook", new, mods[child].base_layer) EXCEPT
        !.p = mods[child].p,
        !.lora_B = mods[child].lora_B,
        !.scaling = mods[child].scaling]

\* the LoraLinearWithHook built for child, as object new: the constructor
\* wraps child's base_layer object and creates its own containers, then
\* lora_A, lora_B and scaling are rebound to child's
NewModule(mods, child, new) ==
    [Adapter("LoraLinearWithHook", new, mods[child].base_layer) EXCEPT
        !.p = mods[child].p,
        !.lora_A = mods[child].lora_A,
        !.lora_B = mods[child].lora_B,
        !.scaling = mods[child].scaling]

\* new_module.base_layer.weight = child.base_layer.weight, and the bias when
\* child's base layer has one
RebindBase(mods, child, new) ==
    LET nb == mods[new].base_layer
        cb == mods[child].base_layer
    IN  [mods EXCEPT
            ![nb].weight = mods[cb].weight,
            ![nb].bias = IF mods[cb].bias # NoRef THEN mods[cb].bias
                         ELSE mods[nb].bias]

\* replace_lora_linear(module), from the k-th of its named_children on
RECURSIVE ReplaceFrom(_, _, _)
ReplaceFrom(mods, m, k) ==
    IF k > Len(mods[m].children) THEN mods
    ELSE LET child == mods[m].children[k][2]
         IN  IF IsLoraLinear(mods[child].kind)
             THEN LET new == Len(mods) + 1
                      made == Append(mods, NewModule(mods, child, new))
                      bound == RebindBase(made, child, new)
                  IN  ReplaceFrom(
                        [bound EXCEPT ![m].children[k][2] = new], m, k + 1)
             ELSE ReplaceFrom(ReplaceFrom(mods, child, 1), m, k + 1)

ReplaceLoraLinear ==
    /\ tree.phase = "host"
    /\ \E after \in {ReplaceFrom(tree.mods, tree.root, 1)} :
        /\ tree' = [tree EXCEPT !.phase = "replaced", !.mods = after]
        /\ heapTop' = Len(after)
    /\ UNCHANGED <<pc, cfg, W_enc, b_enc, W_dec, b_dec, scaling_factor,
                   W_dec_grad, training, call, out, disk, loaded>>

InitLora ==
    /\ SaeInit
    /\ disk = NoDisk
    /\ loaded = NoneOpt
    /\ tree \in HostTrees
    /\ WellFormed(tree)
    /\ heapTop = Len(tree.mods)

NextLora == ReplaceLoraLinear

SpecLora == InitLora /\ [][NextLora]_vars

\* the modules below m, m excluded
RECURSIVE Descendants(_, _)
Descendants(mods, m) ==
    LET cs == {mods[m].children[k][2] : k \in 1..Len(mods[m].children)}
    IN  cs \cup UNION {Descendants(mods, c) : c \in cs}

\* C10: after replace_lora_linear(root) every LoraLinear below root has been
\* replaced, under the same name in its parent, by a LoraLinearWithHook
\* whose base weight and bias, lora_A, lora_B and scaling are the objects of
\* the layer it replaced; every other module stays in place unchanged.
C10_AdaptersReplacedByReference ==
    [][(tree.phase = "host" /\ tree'.phase = "replaced") =>
        LET old == tree.mods
            new == tree'.mods
        IN  \A m \in {tree.root} \cup Descendants(old, tree.root) :
              IF IsLoraLinear(old[m].kind) /\ m # tree.root
              THEN TRUE
              ELSE /\ new[m].kind = old[m].kind
                   /\ Len(new[m].children) = Len(old[m].children)
                   /\ old[m].kind # "Container" => new[m] = old[m]
                   /\ \A k \in 1..Len(old[m].children) :
                        LET c == old[m].children[k][2]
                            d == new[m].children[k][2]
                        IN  /\ new[m].children[k][1] = old[m].children[k][1]
                            /\ IF IsLoraLinear(old[c].kind)
                               THEN /\ d # c
                                    /\ new[d].kind = "LoraLinearWithHook"
                                    /\ new[new[d].base_layer].weight
                                         = old[old[c].base_layer].weight
                                    /\ new[new[d].base_layer].bias
                                         = old[old[c].base_layer].bias
                                    /\ new[d].lora_A = old[c].lora_A
                                    /\ new[d].lora_B = old[c].lora_B
                                    /\ new[d].scaling = old[c].scaling
                               ELSE d = c]_vars

\* C10 witness: a tree whose root holds a container that holds an adapter
\* layer has been rewritten, and the adapter layer is now a hook layer
\* sharing the lora_A of the layer first created there.
C10_Witness ==
    /\ tree.phase = "replaced"
    /\ \E k \in 1..Len(tree.mods[tree.root].children) :
        LET c == tree.mods[tree.root].children[k][2]
        IN  /\ tree.mods[c].kind = "Container"
            /\ \E j \in 1..Len(tree.mods[c].children) :
                LET d == tree.mods[c].children[j][2]
                    n == tree.mods[c].children[j][1]
                IN  /\ tree.mods[d].kind = "LoraLinearWithHook"
                    /\ d # n
                    /\ tree.mods[d].lora_A = <<"lora_A", n>>

====
